---- MODULE Spec2Model ----
(***************************************************************************)
(* Subscription lifecycle of the OK Virtuals bot (src/bot.py): the sqlite  *)
(* store (users, payments, subscription_history), the front-end handlers   *)
(* that create and verify payments, the per-user rate limiter and the      *)
(* background monitor thread that revokes expired subscriptions and sends  *)
(* expiry reminders.                                                       *)
(*                                                                         *)
(* Timestamps are integers counted in ticks, Day ticks to a day.  The code *)
(* stores datetime.isoformat() strings in UTC and compares them as text;   *)
(* for one fixed UTC offset that order is the chronological order, which   *)
(* is the order of the integers used here.                                 *)
(*                                                                         *)
(* The front-end is one asyncio application that handles one update at a   *)
(* time; the monitor is a thread of its own.  Each store operation runs    *)
(* under DatabaseManager.lock and is one atomic step; the monitor and the  *)
(* front-end interleave between store operations.                          *)
(***************************************************************************)
EXTENDS Integers, Sequences, FiniteSets, TLC

\* ------------------------------------------------------------------ bounds
\* ticks per day
Day == 2
\* ticks explored one by one from tick 0 on, and after the end of a window
\* that started at tick 0
EarlyTicks == 1
LateTicks == 2
\* payment references that can be created
MaxRefs == 2
\* activations (update_subscription commits) in one behaviour
MaxHistory == 2
\* checkout requests handled in one behaviour
MaxRequests == 12
\* seconds by which time.time() advances in one step, and its last value
ClockStep == 30
MaxClock == 60
\* POST requests handled in one behaviour
MaxPosts == 4

\* ------------------------------------------------------- program constants
SUBSCRIPTION_DAYS == 30
max_requests_per_minute == 10
RateWindow == 60
REMINDER_DAYS == <<7, 3, 1>>
max_retries == 5

\* The quiet stretch of a window that started at tick 0 is crossed in one
\* step: nothing is observed at the ticks EarlyTicks+1 .. QuietTo-1.  QuietTo
\* is the last tick before the last reminder window of that subscription.
QuietTo == (SUBSCRIPTION_DAYS - (REMINDER_DAYS[3] + 1)) * Day
MaxTime == SUBSCRIPTION_DAYS * Day + LateTicks

NULL == -1
Users == {1, 2}
Refs == 1..MaxRefs

\* users that start a checkout under Spec (every user does under RateSpec)
Payers == {1}

VARIABLES
    now,        \* datetime.now(timezone.utc), in ticks
    clock,      \* time.time(), in seconds
    users,      \* table users
    payments,   \* table payments
    history,    \* table subscription_history
    requests,   \* RateLimiter.requests
    fe,         \* the front-end handler in progress and its locals
    mon,        \* the monitor thread: position, work lists, last outward call
    activated,  \* per reference: update_subscription commits of its verifications
    served,     \* per user: <<time, allowed>> of every checkout request
    banned,     \* users banned from the premium channel
    lock,       \* DatabaseManager.lock: the thread that holds it, or "free"
    conn,       \* per thread: its position in a store operation
    http,       \* WebhookHandler: the last POST and how it was answered
    proc        \* main: its position, shutdown_flag, retry_count, the
                \* monitor's running flag and the exit status

vars == <<now, clock, users, payments, history, requests, fe, mon,
          activated, served, banned, lock, conn, http, proc>>

\* what the handlers and the monitor's sweep leave alone
sysvars == <<lock, conn, http, proc>>

\* ------------------------------------------------------------------- rows
\* a users row as init_database creates the table; exists = FALSE: no row
NoUser ==
    [exists |-> FALSE, subscription_start |-> NULL, subscription_end |-> NULL,
     is_premium |-> 0, last_reminder_sent |-> NULL, invite_link |-> NULL]

NewUser == [NoUser EXCEPT !.exists = TRUE]

\* a payments row; writes counts the executions of update_payment_status
NoPayment == [exists |-> FALSE, user_id |-> 0, status |-> "none", writes |-> 0]

RECURSIVE SortedSeq(_)
SortedSeq(S) ==
    IF S = {} THEN <<>>
    ELSE LET m == CHOOSE x \in S : \A y \in S : x <= y
         IN <<m>> \o SortedSeq(S \ {m})

\* ------------------------------------------------------- DatabaseManager
add_user_replacing(U, u) == [U EXCEPT ![u] = NewUser]

\* INSERT OR IGNORE, then an UPDATE of the name fields and the activity
\* timestamps, which are not part of the rows here
add_user(U, u) ==
    IF U[u].exists THEN U ELSE [U EXCEPT ![u] = NewUser]

get_user(U, u) == U[u]

update_subscription_swapped(U, u, start_date, end_date) ==
    IF U[u].exists
    THEN [U EXCEPT ![u].subscription_start = end_date,
                   ![u].subscription_end = start_date,
                   ![u].is_premium = 1,
                   ![u].last_reminder_sent = NULL]
    ELSE U

update_subscription(U, u, start_date, end_date) ==
    IF U[u].exists
    THEN [U EXCEPT ![u].subscription_start = start_date,
                   ![u].subscription_end = end_date,
                   ![u].is_premium = 1,
                   ![u].last_reminder_sent = NULL]
    ELSE U

history_row(u, start_date, end_date, is_renewal) ==
    [user_id |-> u, start_date |-> start_date, end_date |-> end_date,
     is_renewal |-> IF is_renewal THEN 1 ELSE 0]

revoke_subscription(U, u) ==
    IF U[u].exists
    THEN [U EXCEPT ![u].is_premium = 0, ![u].invite_link = NULL]
    ELSE U

get_expired_subscriptions_none(U, t) == <<>>

get_expired_subscriptions(U, t) ==
    SortedSeq({u \in Users : /\ U[u].exists
                             /\ U[u].is_premium = 1
                             /\ U[u].subscription_end # NULL
                             /\ U[u].subscription_end < t})

needs_reminder_shifted(row, t, days) ==
    /\ row.exists
    /\ row.is_premium = 1
    /\ row.subscription_end # NULL
    /\ row.subscription_end > t + (days - 1) * Day
    /\ row.subscription_end <= t + days * Day

needs_reminder_once(row, t, days) ==
    /\ row.exists
    /\ row.is_premium = 1
    /\ row.subscription_end # NULL
    /\ row.subscription_end >= t + days * Day
    /\ row.subscription_end < t + (days + 1) * Day
    /\ row.last_reminder_sent = NULL

needs_reminder(row, t, days) ==
    /\ row.exists
    /\ row.is_premium = 1
    /\ row.subscription_end # NULL
    /\ row.subscription_end >= t + days * Day
    /\ row.subscription_end < t + (days + 1) * Day
    /\ \/ row.last_reminder_sent = NULL
       \/ row.last_reminder_sent < t + days * Day

RECURSIVE reminders_from(_, _, _)
reminders_from(U, t, i) ==
    IF i > Len(REMINDER_DAYS) THEN <<>>
    ELSE LET days == REMINDER_DAYS[i]
             rows == SortedSeq({u \in Users : needs_reminder(U[u], t, days)})
         IN [k \in 1..Len(rows) |-> <<rows[k], days>>]
            \o reminders_from(U, t, i + 1)

get_users_needing_reminder(U, t) == reminders_from(U, t, 1)

mark_reminder_sent(U, u, t) ==
    IF U[u].exists THEN [U EXCEPT ![u].last_reminder_sent = t] ELSE U

add_payment_record(P, r, u) ==
    [P EXCEPT ![r] = [exists |-> TRUE, user_id |-> u, status |-> "pending",
                      writes |-> 0]]

update_payment_status_failed(P, r, status) ==
    IF P[r].exists
    THEN [P EXCEPT ![r].status = "failed", ![r].writes = @ + 1]
    ELSE P

update_payment_status(P, r, status) ==
    IF P[r].exists
    THEN [P EXCEPT ![r].status = status, ![r].writes = @ + 1]
    ELSE P

get_payment_record(P, r) == P[r]

save_invite_link(U, u, link) ==
    IF U[u].exists THEN [U EXCEPT ![u].invite_link = link] ELSE U

\* ------------------------------------------------------------ RateLimiter
rl_pruned(R, u, t) == SelectSeq(R[u], LAMBDA req_time : req_time > t - RateWindow)

is_allowed_inclusive(R, u, t) == Len(rl_pruned(R, u, t)) <= max_requests_per_minute

is_allowed(R, u, t) == Len(rl_pruned(R, u, t)) < max_requests_per_minute

rl_after(R, u, t) ==
    [R EXCEPT ![u] = IF is_allowed(R, u, t)
                     THEN Append(rl_pruned(R, u, t), t)
                     ELSE rl_pruned(R, u, t)]

\* ------------------------------------------------------------- front-end
Idle ==
    [pc |-> "idle", op |-> "none", user |-> 0, ref |-> 0, start |-> NULL,
     end |-> NULL, renewal |-> FALSE, gw |-> FALSE, answer |-> "none",
     reply |-> "none"]

RECURSIVE SumLen(_, _)
SumLen(f, S) ==
    IF S = {} THEN 0
    ELSE LET x == CHOOSE y \in S : TRUE
         IN Len(f[x]) + SumLen(f, S \ {x})

TotalServed == SumLen(served, Users)

RECURSIVE SumOf(_, _)
SumOf(f, S) ==
    IF S = {} THEN 0
    ELSE LET x == CHOOSE y \in S : TRUE
         IN f[x] + SumOf(f, S \ {x})

\* the activations written since the initial state
TotalActivated == SumOf(activated, Refs)

\* tx_ref carries a uuid4: a reference no payment row has yet
FreshRefs == {r \in Refs : ~payments[r].exists}

FreshRef == CHOOSE r \in FreshRefs : \A q \in FreshRefs : r <= q

Respond(reply) == [fe EXCEPT !.pc = "respond", !.reply = reply]

\* In every action, ok = FALSE: the store operation of the step raised inside
\* get_connection (sqlite error) and was rolled back.

\* any command handler: upserts the user and renders a menu
Command(u, ok) ==
    /\ fe.pc = "idle"
    /\ users' = IF ok THEN add_user(users, u) ELSE users
    /\ UNCHANGED <<now, clock, payments, history, requests, fe, mon,
                   activated, served>>
    /\ UNCHANGED <<banned, sysvars>>

payment_recorded_without_link(allowed, link_ok, ok) == allowed /\ ok

\* add_payment_record is reached and commits: the request was allowed,
\* create_payment_link returned status 'success', the INSERT succeeded
payment_recorded(allowed, link_ok, ok) == allowed /\ link_ok /\ ok

\* process_payment_callback; link_ok: create_payment_link returned the link
\* (otherwise its error value: gateway error, timeout, malformed response)
ProcessPayment(u, link_ok, ok) ==
    /\ fe.pc = "idle"
    /\ TotalServed < MaxRequests
    /\ payment_recorded(is_allowed(requests, u, clock), link_ok, ok)
           => FreshRefs # {}
    /\ LET allowed == is_allowed(requests, u, clock)
           created == payment_recorded(allowed, link_ok, ok)
       IN /\ requests' = rl_after(requests, u, clock)
          /\ served' = [served EXCEPT ![u] = Append(@, <<clock, allowed>>)]
          /\ payments' = IF created THEN add_payment_record(payments, FreshRef, u)
                         ELSE payments
          /\ fe' = [fe EXCEPT !.pc = "respond", !.op = "pay", !.user = u,
                       !.ref = IF created THEN FreshRef ELSE 0,
                       !.reply = IF ~allowed THEN "throttled"
                                 ELSE IF ~link_ok THEN "gateway_error"
                                 ELSE IF ~ok THEN "error"
                                 ELSE "checkout"]
    /\ UNCHANGED <<now, clock, users, history, mon, activated>>
    /\ UNCHANGED <<banned, sysvars>>

already_completed_never(rec) == FALSE

already_completed(rec) == rec.status = "completed"

record_found_any_owner(rec, u) == rec.exists

\* `if not payment_record or payment_record['user_id'] != user_id`, negated
record_found(rec, u) == rec.exists /\ rec.user_id = u

\* verify_payment_callback up to the gateway call
VerifyStart(u, r, ok) ==
    /\ fe.pc = "idle"
    /\ TotalActivated < MaxHistory
    /\ LET rec == IF ok THEN get_payment_record(payments, r) ELSE NoPayment IN
       fe' = IF ~record_found(rec, u)
             THEN [Respond("not_found") EXCEPT !.op = "verify",
                                               !.user = u, !.ref = r]
             ELSE IF already_completed(rec)
             THEN [Respond("already_processed") EXCEPT !.op = "verify",
                                               !.user = u, !.ref = r]
             ELSE [fe EXCEPT !.pc = "gateway", !.op = "verify",
                             !.user = u, !.ref = r]
    /\ UNCHANGED <<now, clock, users, payments, history, requests, mon,
                   activated, served>>
    /\ UNCHANGED <<banned, sysvars>>

fresh_window(t) ==
    [start |-> t, end |-> t + SUBSCRIPTION_DAYS * Day, is_renewal |-> FALSE]

subscription_window(user_data, t) ==
    IF user_data.exists /\ user_data.is_premium = 1
    THEN IF user_data.subscription_end # NULL /\ user_data.subscription_end > t
         THEN [start |-> user_data.subscription_end,
               end |-> user_data.subscription_end + SUBSCRIPTION_DAYS * Day,
               is_renewal |-> TRUE]
         ELSE fresh_window(t)
    ELSE fresh_window(t)

is_confirmed_any(answer) == TRUE

\* the test of verification_result: status 'success' and data.status
\* 'successful'
is_confirmed(answer) == answer = "successful"

\* the gateway's answer (declined: verify_payment returned an error, or a
\* transaction that is not successful), then get_user and the new window
VerifyGateway(successful, ok) ==
    /\ fe.pc = "gateway"
    /\ LET answer == IF successful THEN "successful" ELSE "declined"
           user_data == IF ok THEN get_user(users, fe.user) ELSE NoUser
           w == subscription_window(user_data, now)
       IN fe' = IF is_confirmed(answer)
                THEN [fe EXCEPT !.pc = "update_sub", !.gw = TRUE,
                                !.answer = answer,
                                !.start = w.start, !.end = w.end,
                                !.renewal = w.is_renewal]
                ELSE [Respond("not_confirmed") EXCEPT !.gw = TRUE,
                                                      !.answer = answer]
    /\ UNCHANGED <<now, clock, users, payments, history, requests, mon,
                   activated, served>>
    /\ UNCHANGED <<banned, sysvars>>

VerifyUpdateSubscription(ok) ==
    /\ fe.pc = "update_sub"
    /\ IF ok
       THEN /\ users' = update_subscription(users, fe.user, fe.start, fe.end)
            /\ history' = Append(history,
                   history_row(fe.user, fe.start, fe.end, fe.renewal))
            /\ activated' = [activated EXCEPT ![fe.ref] = @ + 1]
            /\ fe' = [fe EXCEPT !.pc = "update_pay"]
       ELSE /\ fe' = Respond("error")
            /\ UNCHANGED <<users, history, activated>>
    /\ UNCHANGED <<now, clock, payments, requests, mon, served>>
    /\ UNCHANGED <<banned, sysvars>>

VerifyUpdatePayment(ok) ==
    /\ fe.pc = "update_pay"
    /\ IF ok
       THEN /\ payments' = update_payment_status(payments, fe.ref, "completed")
            /\ fe' = [fe EXCEPT !.pc = "invite"]
       ELSE /\ fe' = Respond("error")
            /\ UNCHANGED payments
    /\ UNCHANGED <<now, clock, users, history, requests, mon, activated, served>>
    /\ UNCHANGED <<banned, sysvars>>

invite_reply_raising(invite_link) ==
    IF invite_link # NULL THEN "success_link" ELSE "error"

\* what the handler shows after create_invite_link: the link, or the manual
\* fallback when it returned None
invite_reply(invite_link) ==
    IF invite_link # NULL THEN "success_link" ELSE "success_no_link"

\* create_invite_link (NULL: it returned None), then save_invite_link
VerifyInvite(invite_link, ok) ==
    /\ fe.pc = "invite"
    /\ users' = IF invite_link # NULL /\ ok
                THEN save_invite_link(users, fe.user, invite_link)
                ELSE users
    /\ fe' = Respond(invite_reply(invite_link))
    /\ UNCHANGED <<now, clock, payments, history, requests, mon, activated, served>>
    /\ UNCHANGED <<banned, sysvars>>

\* premium_command: add_user
PremiumStart(u, ok) ==
    /\ fe.pc = "idle"
    /\ users' = IF ok THEN add_user(users, u) ELSE users
    /\ fe' = [fe EXCEPT !.pc = "premium_get", !.op = "premium", !.user = u]
    /\ UNCHANGED <<now, clock, payments, history, requests, mon, activated, served>>
    /\ UNCHANGED <<banned, sysvars>>

window_open_always(user_data, t) == TRUE

\* premium_command: `if end_date > datetime.now(timezone.utc)`
window_open(user_data, t) == user_data.subscription_end > t

\* premium_command: get_user, the window test and create_invite_link
PremiumGet(invite_link, ok) ==
    /\ fe.pc = "premium_get"
    /\ LET user_data == IF ok THEN get_user(users, fe.user) ELSE NoUser IN
       fe' = IF user_data.exists /\ user_data.is_premium = 1
             THEN IF user_data.subscription_end = NULL
                  THEN Respond("error")
                  ELSE IF window_open(user_data, now)
                  THEN IF invite_link = NULL
                       THEN Respond("premium_no_link")
                       ELSE [fe EXCEPT !.pc = "premium_save"]
                  ELSE Respond("expired")
             ELSE Respond("premium_required")
    /\ UNCHANGED <<now, clock, users, payments, history, requests, mon,
                   activated, served>>
    /\ UNCHANGED <<banned, sysvars>>

PremiumSave(ok) ==
    /\ fe.pc = "premium_save"
    /\ users' = IF ok THEN save_invite_link(users, fe.user, 1) ELSE users
    /\ fe' = Respond("premium_link")
    /\ UNCHANGED <<now, clock, payments, history, requests, mon, activated, served>>
    /\ UNCHANGED <<banned, sysvars>>

\* the reply reaches the user and the handler returns
Reply ==
    /\ fe.pc = "respond"
    /\ fe' = Idle
    /\ UNCHANGED <<now, clock, users, payments, history, requests, mon,
                   activated, served>>
    /\ UNCHANGED <<banned, sysvars>>

\* ------------------------------------------------------ SubscriptionMonitor
NoOut == [kind |-> "none", user |-> 0, days |-> 0, ok |-> FALSE]

\* wait: at the end of a pass (pc = "pass_end"), the seconds of the
\* time.sleep about to begin; 0 elsewhere
Asleep ==
    [pc |-> "sleep", expired |-> <<>>, reminders |-> <<>>, out |-> NoOut,
     wait |-> 0]

\* _monitor_loop: time.sleep(1800) after a pass, time.sleep(300) in the
\* except clause
sleep_interval(raised) == IF raised THEN 300 ELSE 1800

\* what reaches the except clause of _monitor_loop: both halves of a pass
\* catch every Exception themselves and the store operations they call
\* return normally when the storage fails
pass_raised == FALSE

after_listing_error_dead == "dead"

\* where the pass goes on when get_expired_subscriptions failed: the error
\* is logged, the list is empty, the reminders are next
after_listing_error == "remind_list"

\* _check_expired_subscriptions: get_expired_subscriptions
MonitorListExpired(ok) ==
    /\ mon.pc = "sleep"
    /\ proc.running
    /\ LET expired_users == IF ok THEN get_expired_subscriptions(users, now)
                            ELSE <<>>
       IN mon' = [mon EXCEPT !.expired = expired_users, !.out = NoOut,
                     !.pc = IF ~ok THEN after_listing_error
                            ELSE IF expired_users # <<>> THEN "revoke"
                            ELSE "remind_list"]
    /\ UNCHANGED <<now, clock, users, payments, history, requests, fe,
                   activated, served>>
    /\ UNCHANGED <<banned, sysvars>>

MonitorRevoke(ok) ==
    /\ mon.pc = "revoke"
    /\ users' = IF ok THEN revoke_subscription(users, Head(mon.expired))
                ELSE users
    /\ mon' = [mon EXCEPT !.pc = "remove", !.out = NoOut]
    /\ UNCHANGED <<now, clock, payments, history, requests, fe, activated, served>>
    /\ UNCHANGED <<banned, sysvars>>

\* remove_user_from_group and _send_expiry_notification for the same user
next_expired_abort(expired_users, removed) ==
    IF removed THEN Tail(expired_users) ELSE <<>>

\* the users of the pass still to be processed after one user's removal and
\* notification: both swallow their exceptions, the for loop goes on
next_expired(expired_users, removed) == Tail(expired_users)

MonitorRemove(removed) ==
    /\ mon.pc = "remove"
    /\ mon' = [mon EXCEPT !.expired = next_expired(mon.expired, removed),
                  !.out = [kind |-> "remove", user |-> Head(mon.expired),
                           days |-> 0, ok |-> removed],
                  !.pc = IF next_expired(mon.expired, removed) # <<>>
                         THEN "revoke" ELSE "remind_list"]
    /\ UNCHANGED <<now, clock, users, payments, history, requests, fe,
                   activated, served>>
    /\ banned' = IF removed THEN banned \cup {Head(mon.expired)} ELSE banned
    /\ UNCHANGED sysvars

\* _send_expiry_reminders: get_users_needing_reminder
MonitorListReminders(ok) ==
    /\ mon.pc = "remind_list"
    /\ LET users_to_remind == IF ok THEN get_users_needing_reminder(users, now)
                              ELSE <<>>
       IN mon' = [mon EXCEPT !.reminders = users_to_remind, !.out = NoOut,
                     !.pc = IF users_to_remind # <<>> THEN "remind"
                            ELSE "sleep"]
    /\ UNCHANGED <<now, clock, users, payments, history, requests, fe,
                   activated, served>>
    /\ UNCHANGED <<banned, sysvars>>

\* _send_reminder_notification (sent: the message went out), then
\* mark_reminder_sent
MonitorRemind(sent, ok) ==
    /\ mon.pc = "remind"
    /\ LET user_id == Head(mon.reminders)[1]
           days_remaining == Head(mon.reminders)[2]
       IN /\ users' = IF ok THEN mark_reminder_sent(users, user_id, now)
                      ELSE users
          /\ mon' = [mon EXCEPT !.reminders = Tail(@),
                        !.out = [kind |-> "reminder", user |-> user_id,
                                 days |-> days_remaining, ok |-> sent],
                        !.pc = IF Tail(mon.reminders) # <<>> THEN "remind"
                               ELSE "pass_end",
                        !.wait = IF Tail(mon.reminders) # <<>> THEN @
                                 ELSE sleep_interval(pass_raised)]
    /\ UNCHANGED <<now, clock, payments, history, requests, fe, activated, served>>
    /\ UNCHANGED <<banned, sysvars>>

\* _monitor_loop: the pass is over, time.sleep(1800) begins
MonitorSleep ==
    /\ mon.pc = "pass_end"
    /\ mon' = Asleep
    /\ UNCHANGED <<now, clock, users, payments, history, requests, fe,
                   activated, served>>
    /\ UNCHANGED <<banned, sysvars>>

\* ------------------------------------------------------------------ time
\* No timestamp is stored or compared before the first window is computed,
\* so tick 0 stands for every instant up to that one.
TimeObserved ==
    \/ fe.start # NULL
    \/ \E u \in Users : users[u].subscription_end # NULL

Tick ==
    /\ TimeObserved
    /\ now < MaxTime
    /\ now' = IF now = EarlyTicks THEN QuietTo ELSE now + 1
    /\ UNCHANGED <<clock, users, payments, history, requests, fe, mon,
                   activated, served>>
    /\ UNCHANGED <<banned, sysvars>>

\* datetime.now() seen at every tick, the quiet stretch included
Elapse ==
    /\ TimeObserved
    /\ now < MaxTime
    /\ now' = now + 1
    /\ UNCHANGED <<clock, users, payments, history, requests, fe, mon,
                   activated, served>>
    /\ UNCHANGED <<banned, sysvars>>

ClockTick ==
    /\ clock + ClockStep <= MaxClock
    /\ clock' = clock + ClockStep
    /\ UNCHANGED <<now, users, payments, history, requests, fe, mon,
                   activated, served>>
    /\ UNCHANGED <<banned, sysvars>>

\* ------------------------------------------------------------ the process
Threads == {"frontend", "monitor", "webhook"}

\* no store operation in progress
Closed == [pc |-> "closed", op |-> "none"]

\* FLUTTERWAVE_WEBHOOK_SECRET: the value configured, or "" when the
\* environment variable is not set
Secrets == {"", "s3cret"}

\* the verif-hash header of a request; "" is what headers.get returns when
\* the header is absent
Signatures == {"", "s3cret", "wrong"}

Paths == {"/webhook/flutterwave", "/other"}

\* no POST received yet; posts and threads count the requests and the
\* process_webhook threads started
NoRequest ==
    [secret |-> "s3cret", path |-> "none", signature |-> "none", status |-> 0,
     dispatched |-> FALSE, error |-> FALSE, posts |-> 0, threads |-> 0]

\* main after the handlers are registered and the threads started: in the
\* polling loop, first attempt; attempts counts the calls of run_polling,
\* raised is the exception the last call ended with
Polling ==
    [pc |-> "polling", shutdown_flag |-> FALSE, retry_count |-> 0,
     wait_time |-> 0, running |-> TRUE, exit |-> NULL, attempts |-> 1,
     raised |-> "none", token |-> "123:abc", store |-> TRUE,
     listener |-> TRUE]

\* BOT_TOKEN in the environment; "" when it is not set
Tokens == {"", "123:abc"}

\* the interpreter at the import of the module, before load_config: no
\* store, no thread, no polling yet
Starting(token) ==
    [Polling EXCEPT !.pc = "load_config", !.token = token, !.running = FALSE,
                    !.store = FALSE, !.listener = FALSE, !.attempts = 0]

\* the store operations each thread calls; process_webhook calls none
StoreOps(t) ==
    IF t = "frontend"
    THEN {"add_user", "get_user", "update_subscription", "add_payment_record",
          "update_payment_status", "get_payment_record", "save_invite_link",
          "update_user_stats", "get_admin_stats"}
    ELSE IF t = "monitor"
    THEN {"get_expired_subscriptions", "revoke_subscription",
          "get_users_needing_reminder", "mark_reminder_sent",
          "log_notification"}
    ELSE {}

appvars == <<now, clock, users, payments, history, requests, fe, mon,
             activated, served, banned>>

\* get_connection, entered: the thread waits at `with self.lock`
StoreEnter(t, op) ==
    /\ conn[t].pc = "closed"
    /\ op \in StoreOps(t)
    /\ conn' = [conn EXCEPT ![t] = [pc |-> "waiting", op |-> op]]
    /\ UNCHANGED <<appvars, lock, http, proc>>

\* the lock is taken, sqlite3.connect, yield: the body of the operation runs
StoreAcquire(t) ==
    /\ conn[t].pc = "waiting"
    /\ lock = "free"
    /\ lock' = t
    /\ conn' = [conn EXCEPT ![t].pc = "body"]
    /\ UNCHANGED <<appvars, http, proc>>

\* the body ends after its commit: the with block of the lock is left, the
\* finally clause is next
StoreCommit(t) ==
    /\ conn[t].pc = "body"
    /\ lock' = "free"
    /\ conn' = [conn EXCEPT ![t].pc = "closing"]
    /\ UNCHANGED <<appvars, http, proc>>

lock_after_raise_held(t) == t

\* the holder of the lock once an exception has left `with self.lock`: the
\* with statement releases it
lock_after_raise(t) == "free"

\* an exception in the body (connected) or in sqlite3.connect (~connected):
\* it leaves the with block of the lock first, then reaches the except
\* clause, which rolls back if there is a connection
StoreRaise(t, connected) ==
    /\ conn[t].pc = "body"
    /\ lock' = lock_after_raise(t)
    /\ conn' = [conn EXCEPT ![t] = IF connected
                                   THEN [@ EXCEPT !.pc = "rollback"]
                                   ELSE Closed]
    /\ UNCHANGED <<appvars, http, proc>>

\* conn.rollback() in the except clause, then the exception is raised again
StoreRollback(t) ==
    /\ conn[t].pc = "rollback"
    /\ conn' = [conn EXCEPT ![t].pc = "closing"]
    /\ UNCHANGED <<appvars, lock, http, proc>>

\* conn.close() in the finally clause
StoreClose(t) ==
    /\ conn[t].pc = "closing"
    /\ conn' = [conn EXCEPT ![t] = Closed]
    /\ UNCHANGED <<appvars, lock, http, proc>>

signature_ok_nonempty(signature, secret) == signature # ""

signature_ok(signature, secret) == signature = secret

\* WebhookHandler.do_POST; length_ok: the Content-Length header is a number,
\* json_ok: the body parses, reply_ok: the response could be written
do_POST(path, signature, length_ok, json_ok, reply_ok) ==
    /\ http.posts < MaxPosts
    /\ LET hook == path = "/webhook/flutterwave"
           accepted == hook /\ length_ok /\ signature_ok(signature, http.secret)
           started == accepted /\ json_ok
           failed == \/ ~reply_ok
                     \/ hook /\ (~length_ok \/ (accepted /\ ~json_ok))
       IN http' = [http EXCEPT
                      !.path = path,
                      !.signature = signature,
                      !.error = failed,
                      !.dispatched = started,
                      !.threads = IF started THEN @ + 1 ELSE @,
                      !.posts = @ + 1,
                      !.status = IF failed THEN 500
                                 ELSE IF ~hook THEN 404
                                 ELSE IF accepted THEN 200
                                 ELSE 401]
    /\ UNCHANGED <<appvars, lock, conn, proc>>

config_ok_any(token) == TRUE

\* load_config: `if not config.BOT_TOKEN: raise ValueError`
config_ok(token) == token # ""

\* CONFIG = load_config() at module level; ValueError: sys.exit(1)
load_config ==
    /\ proc.pc = "load_config"
    /\ proc' = IF config_ok(proc.token)
               THEN [proc EXCEPT !.pc = "init"]
               ELSE [proc EXCEPT !.pc = "exited", !.exit = 1]
    /\ UNCHANGED <<appvars, lock, conn, http>>

\* main: the signal handlers are set, OKVirtualsBot(CONFIG) opens the store
\* (DatabaseManager.init_database), the application is built
BotInit ==
    /\ proc.pc = "init"
    /\ proc' = [proc EXCEPT !.store = TRUE, !.pc = "monitor_start"]
    /\ UNCHANGED <<appvars, lock, conn, http>>

\* main: bot.subscription_monitor.start()
MonitorStart ==
    /\ proc.pc = "monitor_start"
    /\ proc' = [proc EXCEPT !.running = TRUE, !.pc = "webhook_start"]
    /\ UNCHANGED <<appvars, lock, conn, http>>

\* main: the handlers are added and the thread of run_webhook_server starts
WebhookStart ==
    /\ proc.pc = "webhook_start"
    /\ proc' = [proc EXCEPT !.listener = TRUE, !.pc = "loop"]
    /\ UNCHANGED <<appvars, lock, conn, http>>

\* SIGINT or SIGTERM delivered to the process once main has set the handler
signal_handler ==
    /\ proc.pc \notin {"load_config", "init", "exited"}
    /\ proc' = [proc EXCEPT !.shutdown_flag = TRUE]
    /\ UNCHANGED <<appvars, lock, conn, http>>

Min(a, b) == IF a <= b THEN a ELSE b

conflict_wait_doubling(retry_count) == Min(10 * 2 ^ (retry_count - 1), 60)

\* except Conflict: wait_time = min(retry_count * 10, 60)
conflict_wait(retry_count) == Min(retry_count * 10, 60)

may_retry_always(retry_count) == TRUE

\* the test `retry_count < max_retries` of the while condition and of both
\* except clauses
may_retry(retry_count) == retry_count < max_retries

\* application.run_polling raises: Conflict, NetworkError or TimedOut, or
\* any other exception
PollingRaises(kind) ==
    /\ proc.pc = "polling"
    /\ proc' = IF kind = "other"
               THEN [proc EXCEPT !.pc = "stopping", !.raised = kind]
               ELSE [proc EXCEPT
                        !.raised = kind,
                        !.retry_count = @ + 1,
                        !.wait_time = IF ~may_retry(proc.retry_count + 1)
                                      THEN @
                                      ELSE IF kind = "conflict"
                                      THEN conflict_wait(proc.retry_count + 1)
                                      ELSE 30,
                        !.pc = IF may_retry(proc.retry_count + 1)
                               THEN "backoff" ELSE "stopping"]
    /\ UNCHANGED <<appvars, lock, conn, http>>

\* the while condition, tested for the first time
PollingStart ==
    /\ proc.pc = "loop"
    /\ proc' = IF ~proc.shutdown_flag /\ may_retry(proc.retry_count)
               THEN [proc EXCEPT !.pc = "polling", !.attempts = @ + 1]
               ELSE [proc EXCEPT !.pc = "stopping"]
    /\ UNCHANGED <<appvars, lock, conn, http>>

\* time.sleep(wait_time) is over: the loop condition is tested again
PollingRetry ==
    /\ proc.pc = "backoff"
    /\ proc' = IF ~proc.shutdown_flag /\ may_retry(proc.retry_count)
               THEN [proc EXCEPT !.pc = "polling", !.attempts = @ + 1]
               ELSE [proc EXCEPT !.pc = "stopping"]
    /\ UNCHANGED <<appvars, lock, conn, http>>

\* after the loop: bot.subscription_monitor.stop()
MonitorStop ==
    /\ proc.pc = "stopping"
    /\ proc' = [proc EXCEPT !.running = FALSE, !.pc = "stopped"]
    /\ UNCHANGED <<appvars, lock, conn, http>>

\* main returns and the interpreter exits
MainReturns ==
    /\ proc.pc = "stopped"
    /\ proc' = [proc EXCEPT !.pc = "exited", !.exit = 0]
    /\ UNCHANGED <<appvars, lock, conn, http>>

\* the monitor thread, a daemon, for as long as the process lives
SweepThread ==
    /\ proc.pc # "exited"
    /\ \/ \E ok \in BOOLEAN : MonitorListExpired(ok)
       \/ \E ok \in BOOLEAN : MonitorListReminders(ok)

\* ---------------------------------------------------------- specification
Init ==
    /\ now = 0
    /\ clock = 0
    /\ users = [u \in Users |-> NoUser]
    /\ payments = [r \in Refs |-> NoPayment]
    /\ history = <<>>
    /\ requests = [u \in Users |-> <<>>]
    /\ fe = Idle
    /\ mon = Asleep
    /\ activated = [r \in Refs |-> 0]
    /\ served = [u \in Users |-> <<>>]
    /\ banned = {}
    /\ lock = "free"
    /\ conn = [t \in Threads |-> Closed]
    /\ http = NoRequest
    /\ proc = Polling

Verify ==
    \/ \E u \in Users, r \in Refs, ok \in BOOLEAN : VerifyStart(u, r, ok)
    \/ \E successful \in BOOLEAN, ok \in BOOLEAN : VerifyGateway(successful, ok)
    \/ \E ok \in BOOLEAN : VerifyUpdateSubscription(ok)
    \/ \E ok \in BOOLEAN : VerifyUpdatePayment(ok)
    \/ \E invite_link \in {NULL, 1}, ok \in BOOLEAN : VerifyInvite(invite_link, ok)

Premium ==
    \/ \E u \in Users, ok \in BOOLEAN : PremiumStart(u, ok)
    \/ \E invite_link \in {NULL, 1}, ok \in BOOLEAN : PremiumGet(invite_link, ok)
    \/ \E ok \in BOOLEAN : PremiumSave(ok)

Monitor ==
    \/ \E ok \in BOOLEAN : MonitorListExpired(ok)
    \/ \E ok \in BOOLEAN : MonitorRevoke(ok)
    \/ \E removed \in BOOLEAN : MonitorRemove(removed)
    \/ \E ok \in BOOLEAN : MonitorListReminders(ok)
    \/ \E sent \in BOOLEAN, ok \in BOOLEAN : MonitorRemind(sent, ok)
    \/ MonitorSleep

\* the lifecycle: checkouts by the Payers, whose link and record are created
Next ==
    \/ \E u \in Users, ok \in BOOLEAN : Command(u, ok)
    \/ \E u \in Payers : ProcessPayment(u, TRUE, TRUE)
    \/ Verify
    \/ Premium
    \/ Reply
    \/ Monitor
    \/ Tick

Spec == Init /\ [][Next]_vars

\* the rate limiter alone: every user, every outcome of the checkout, and
\* time.time() advancing
RateNext ==
    \/ \E u \in Users, link_ok \in BOOLEAN, ok \in BOOLEAN :
           ProcessPayment(u, link_ok, ok)
    \/ Reply
    \/ ClockTick

RateSpec == Init /\ [][RateNext]_vars

\* one paying user whose store operations succeed, and the monitor with every
\* outcome of its own
LiveNext ==
    \/ Command(1, TRUE)
    \/ ProcessPayment(1, TRUE, TRUE)
    \/ \E r \in Refs : VerifyStart(1, r, TRUE)
    \/ VerifyGateway(TRUE, TRUE)
    \/ VerifyUpdateSubscription(TRUE)
    \/ VerifyUpdatePayment(TRUE)
    \/ VerifyInvite(1, TRUE)
    \/ Reply
    \/ Monitor
    \/ Tick

\* The clock advances; the monitor thread is scheduled for as long as it
\* runs (_monitor_loop catches every exception and sleeps); a store operation
\* that is retried pass after pass does not fail for ever.
LiveSpec ==
    /\ Init
    /\ [][LiveNext]_vars
    /\ WF_vars(Tick)
    /\ WF_vars(Monitor)
    /\ SF_vars(MonitorListExpired(TRUE))
    /\ SF_vars(MonitorRevoke(TRUE))

\* the reminders of one window: the paying user of LiveNext, datetime.now()
\* seen at every tick
ReminderNext ==
    \/ Command(1, TRUE)
    \/ ProcessPayment(1, TRUE, TRUE)
    \/ \E r \in Refs : VerifyStart(1, r, TRUE)
    \/ VerifyGateway(TRUE, TRUE)
    \/ VerifyUpdateSubscription(TRUE)
    \/ VerifyUpdatePayment(TRUE)
    \/ VerifyInvite(1, TRUE)
    \/ Reply
    \/ Monitor
    \/ Elapse

\* the monitor thread is scheduled for as long as it runs
ReminderSpec ==
    /\ Init
    /\ [][ReminderNext]_vars
    /\ WF_vars(Monitor)

\* the sweep over several users: every user pays, the front-end's store
\* operations succeed, the monitor has every outcome of its own
SweepNext ==
    \/ \E u \in Users : Command(u, TRUE)
    \/ \E u \in Users : ProcessPayment(u, TRUE, TRUE)
    \/ \E u \in Users, r \in Refs : VerifyStart(u, r, TRUE)
    \/ VerifyGateway(TRUE, TRUE)
    \/ VerifyUpdateSubscription(TRUE)
    \/ VerifyUpdatePayment(TRUE)
    \/ VerifyInvite(1, TRUE)
    \/ Reply
    \/ Monitor
    \/ Tick

\* the monitor thread is scheduled for as long as it runs
SweepSpec ==
    /\ Init
    /\ [][SweepNext]_vars
    /\ WF_vars(Monitor)

\* the threads of the process going through get_connection
LockNext ==
    \/ \E t \in Threads : \E op \in StoreOps(t) : StoreEnter(t, op)
    \/ \E t \in Threads : StoreAcquire(t)
    \/ \E t \in Threads : StoreCommit(t)
    \/ \E t \in Threads, connected \in BOOLEAN : StoreRaise(t, connected)
    \/ \E t \in Threads : StoreRollback(t)
    \/ \E t \in Threads : StoreClose(t)

LockSpec == Init /\ [][LockNext]_vars

\* every store operation ends (sqlite3.connect has a timeout, the bodies are
\* single statements) and a thread waiting at the lock is not passed over
\* for ever
LockLiveSpec ==
    /\ Init
    /\ [][LockNext]_vars
    /\ \A t \in Threads :
           /\ WF_vars(StoreCommit(t) \/ \E connected \in BOOLEAN :
                                           StoreRaise(t, connected))
           /\ SF_vars(StoreAcquire(t))

\* the HTTP listener, with the webhook secret configured or left unset
HttpInit ==
    /\ now = 0
    /\ clock = 0
    /\ users = [u \in Users |-> NoUser]
    /\ payments = [r \in Refs |-> NoPayment]
    /\ history = <<>>
    /\ requests = [u \in Users |-> <<>>]
    /\ fe = Idle
    /\ mon = Asleep
    /\ activated = [r \in Refs |-> 0]
    /\ served = [u \in Users |-> <<>>]
    /\ banned = {}
    /\ lock = "free"
    /\ conn = [t \in Threads |-> Closed]
    /\ http \in {[NoRequest EXCEPT !.secret = secret] : secret \in Secrets}
    /\ proc = Polling

HttpNext ==
    \E path \in Paths, signature \in Signatures,
       length_ok \in BOOLEAN, json_ok \in BOOLEAN, reply_ok \in BOOLEAN :
        do_POST(path, signature, length_ok, json_ok, reply_ok)

HttpSpec == HttpInit /\ [][HttpNext]_vars

\* main and the signals
MainNext ==
    \/ signal_handler
    \/ \E kind \in {"conflict", "network", "other"} : PollingRaises(kind)
    \/ PollingRetry
    \/ MonitorStop
    \/ MainReturns
    \/ SweepThread

\* main is scheduled: a sleep ends, and the statements after the loop run
MainSpec ==
    /\ Init
    /\ [][MainNext]_vars
    /\ WF_vars(PollingRetry)
    /\ WF_vars(MonitorStop)
    /\ WF_vars(MainReturns)

\* the start of the process, with the bot credential set or missing
StartInit ==
    /\ now = 0
    /\ clock = 0
    /\ users = [u \in Users |-> NoUser]
    /\ payments = [r \in Refs |-> NoPayment]
    /\ history = <<>>
    /\ requests = [u \in Users |-> <<>>]
    /\ fe = Idle
    /\ mon = Asleep
    /\ activated = [r \in Refs |-> 0]
    /\ served = [u \in Users |-> <<>>]
    /\ banned = {}
    /\ lock = "free"
    /\ conn = [t \in Threads |-> Closed]
    /\ http = NoRequest
    /\ proc \in {Starting(token) : token \in Tokens}

StartNext ==
    \/ load_config
    \/ BotInit
    \/ MonitorStart
    \/ WebhookStart
    \/ PollingStart
    \/ MainNext

\* the interpreter and main are scheduled
StartSpec ==
    /\ StartInit
    /\ [][StartNext]_vars
    /\ WF_vars(load_config)
    /\ WF_vars(BotInit)
    /\ WF_vars(MonitorStart)
    /\ WF_vars(WebhookStart)
    /\ WF_vars(PollingStart)
    /\ WF_vars(PollingRetry)
    /\ WF_vars(MonitorStop)
    /\ WF_vars(MainReturns)

\* a user whose first window began at tick 0 and who renewed at once: the
\* two payments are of earlier references, outside Refs
Renewed ==
    [NewUser EXCEPT !.subscription_start = SUBSCRIPTION_DAYS * Day,
                    !.subscription_end = 2 * SUBSCRIPTION_DAYS * Day,
                    !.is_premium = 1]

RenewInit ==
    /\ now = 0
    /\ clock = 0
    /\ users = [u \in Users |-> IF u \in Payers THEN Renewed ELSE NoUser]
    /\ payments = [r \in Refs |-> NoPayment]
    /\ history = <<history_row(1, 0, SUBSCRIPTION_DAYS * Day, FALSE),
                   history_row(1, SUBSCRIPTION_DAYS * Day,
                               2 * SUBSCRIPTION_DAYS * Day, TRUE)>>
    /\ requests = [u \in Users |-> <<>>]
    /\ fe = Idle
    /\ mon = Asleep
    /\ activated = [r \in Refs |-> 0]
    /\ served = [u \in Users |-> <<>>]
    /\ banned = {}
    /\ lock = "free"
    /\ conn = [t \in Threads |-> Closed]
    /\ http = NoRequest
    /\ proc = Polling

\* the next payments of that user; get_user may fail, the other store
\* operations of the front-end succeed
RenewNext ==
    \/ ProcessPayment(1, TRUE, TRUE)
    \/ \E r \in Refs : VerifyStart(1, r, TRUE)
    \/ \E ok \in BOOLEAN : VerifyGateway(TRUE, ok)
    \/ VerifyUpdateSubscription(TRUE)
    \/ VerifyUpdatePayment(TRUE)
    \/ VerifyInvite(1, TRUE)
    \/ Reply
    \/ Monitor
    \/ Tick

RenewSpec == RenewInit /\ [][RenewNext]_vars

\* ================================================================ claims
Completed(r) == payments[r].exists /\ payments[r].status = "completed"

\* a users row with an active window at tick t
ActiveAt(row, t) ==
    /\ row.exists
    /\ row.is_premium = 1
    /\ row.subscription_end # NULL
    /\ row.subscription_end > t

\* C1: each payment reference causes at most one activation (one window
\* write and one subscription_history row), whatever the verification
\* requests, sweep passes and storage failures.
C1_AtMostOneActivation == \A r \in Refs : activated[r] <= 1

\* C2: a verification request for a reference whose record is completed
\* leaves the users, payments and subscription_history tables unchanged,
\* makes no gateway call and returns.
C2_CompletedVerifyIsNoOp ==
    [][(/\ fe.pc = "idle"
        /\ fe'.op = "verify"
        /\ Completed(fe'.ref))
       => (/\ UNCHANGED <<users, payments, history, activated>>
           /\ fe'.pc = "respond"
           /\ ~fe'.gw)]_vars

C2_Witness ==
    /\ fe.op = "verify"
    /\ fe.reply = "already_processed"
    /\ Completed(fe.ref)

\* C3: no user ever has is_premium = 0 while subscription_end is later than
\* the current time, under any interleaving of a sweep pass and an activation.
C3_NoRevokedActiveWindow ==
    \A u \in Users :
        ~(/\ users[u].exists
          /\ users[u].is_premium = 0
          /\ users[u].subscription_end # NULL
          /\ users[u].subscription_end > now)

\* C4: when the payment of a user with an active window ending at E is
\* verified, the window written is start = E, end = E + SUBSCRIPTION_DAYS and
\* the history row is flagged as a renewal.
C4_RenewalExtendsFromEnd ==
    [][(/\ fe.pc = "gateway"
        /\ fe'.pc = "update_sub"
        /\ ActiveAt(users[fe.user], now))
       => (/\ fe'.start = users[fe.user].subscription_end
           /\ fe'.end = users[fe.user].subscription_end
                            + SUBSCRIPTION_DAYS * Day
           /\ fe'.renewal)]_vars

\* C5: a sweep pass sends no reminder for a threshold to a user whose
\* last_reminder_sent was already stamped inside that threshold's day-bucket
\* of the same subscription_end.
C5_OneReminderPerThreshold ==
    [][(/\ mon.pc = "remind"
        /\ mon' # mon
        /\ mon'.out.kind = "reminder")
       => LET row == users[mon'.out.user]
              days == mon'.out.days
          IN ~(/\ row.last_reminder_sent # NULL
               /\ row.subscription_end # NULL
               /\ row.last_reminder_sent
                      > row.subscription_end - (days + 1) * Day
               /\ row.last_reminder_sent <= row.subscription_end - days * Day)]_vars

\* C6: a user with is_premium = 1 whose subscription_end is at or before the
\* current time is eventually set to is_premium = 0 by the sweep, unless
\* activated again in between.
C6_ExpiredEventuallyRevoked ==
    \A u \in Users :
        (/\ users[u].is_premium = 1
         /\ users[u].subscription_end # NULL
         /\ users[u].subscription_end <= now)
        ~> (\/ users[u].is_premium = 0
            \/ users[u].subscription_end > now)

C6_Witness ==
    \E u \in Users :
        /\ users[u].is_premium = 0
        /\ users[u].subscription_end # NULL
        /\ users[u].subscription_end < now
        /\ mon.pc = "remove"
        /\ Head(mon.expired) = u

\* C7: every user with is_premium = 1 has a non-null subscription_end that is
\* later than the subscription_start of the same activation.
C7_PremiumHasWindow ==
    \A u \in Users :
        users[u].is_premium = 1
        => (/\ users[u].subscription_end # NULL
            /\ users[u].subscription_start # NULL
            /\ users[u].subscription_end > users[u].subscription_start)

C7_Witness ==
    /\ fe.pc = "update_pay"
    /\ users[fe.user].is_premium = 1
    /\ users[fe.user].subscription_end = fe.end

\* C8: a payment record's status only moves from pending to completed, a
\* completed record stays completed, and update_payment_status runs at most
\* once per reference.
C8_StatusMonotone ==
    [][\A r \in Refs :
          /\ payments[r].status = "completed"
                 => payments'[r].status = "completed"
          /\ payments[r].status = "pending"
                 => payments'[r].status \in {"pending", "completed"}
          /\ payments'[r].writes <= 1]_vars

C8_Witness ==
    \E r \in Refs : Completed(r) /\ payments[r].writes = 1 /\ fe.pc = "idle"

\* the requests of user u allowed at a time in (lo, hi], among the first n
AllowedIn(u, lo, hi, n) ==
    Cardinality({i \in 1..n : /\ served[u][i][2]
                              /\ served[u][i][1] > lo
                              /\ served[u][i][1] <= hi})

\* C9: per user, at most max_requests_per_minute checkout requests are
\* allowed in any rolling 60-second window; a request is throttled exactly
\* when the window already holds that many allowed ones, and gets the
\* throttled response.
C9_RateLimit ==
    \A u \in Users :
        /\ \A i \in 1..Len(served[u]) :
              LET t == served[u][i][1] IN
              /\ AllowedIn(u, t - RateWindow, t, Len(served[u]))
                     <= max_requests_per_minute
              /\ served[u][i][2]
                     <=> (AllowedIn(u, t - RateWindow, t, i - 1)
                              < max_requests_per_minute)
        /\ (fe.op = "pay" /\ fe.user = u)
               => (fe.reply = "throttled"
                       <=> ~served[u][Len(served[u])][2])

C9_Witness ==
    \E u \in Users :
        \E i \in 1..Len(served[u]) :
            /\ ~served[u][i][2]
            /\ AllowedIn(u, served[u][i][1] - RateWindow, served[u][i][1], i)
                   = max_requests_per_minute
            /\ \E j \in (i + 1)..Len(served[u]) : served[u][j][2]

\* C10: when a payment is verified for a user with no active window, the
\* window computed is start = now, end = now + SUBSCRIPTION_DAYS, not a
\* renewal; the activation sets the user to is_premium = 1 with that window,
\* and the handler reports success only with the payment record completed.
C10_FreshActivation ==
    [][/\ (/\ fe.pc = "gateway"
           /\ fe'.pc = "update_sub"
           /\ ~ActiveAt(users[fe.user], now))
          => (/\ fe'.start = now
              /\ fe'.end = now + SUBSCRIPTION_DAYS * Day
              /\ ~fe'.renewal)
       /\ (/\ fe.pc = "update_sub"
           /\ fe'.pc = "update_pay"
           /\ ~fe.renewal)
          => (/\ users'[fe.user].is_premium = 1
              /\ users'[fe.user].subscription_start = fe.start
              /\ users'[fe.user].subscription_end = fe.end)
       /\ (fe.pc = "invite" /\ fe'.pc = "respond")
          => Completed(fe.ref)]_vars

\* the thresholds, and the pairs <<user, threshold>> of a work list
Thresholds == {REMINDER_DAYS[i] : i \in 1..Len(REMINDER_DAYS)}

Listed(list) == {list[k] : k \in 1..Len(list)}

Due(u, d) == mon.pc = "remind" /\ <<u, d>> \in Listed(mon.reminders)

Reminded(u, d) ==
    /\ mon.out.kind = "reminder"
    /\ mon.out.user = u
    /\ mon.out.days = d

\* C12: a stamp of an earlier reminder does not suppress a threshold: every
\* pass that lists reminders while a premium user is inside the window of a
\* threshold lists the user for it, stamped or not, and every listed
\* reminder is then issued.
C12_EveryThresholdReminded ==
    /\ [][(mon.pc = "remind_list" /\ mon'.pc # "remind_list"
              /\ get_users_needing_reminder(users, now) = mon'.reminders)
          => \A u \in Users, d \in Thresholds :
                 (/\ users[u].is_premium = 1
                  /\ users[u].subscription_end # NULL
                  /\ now > users[u].subscription_end - (d + 1) * Day
                  /\ now <= users[u].subscription_end - d * Day)
                 => <<u, d>> \in Listed(mon'.reminders)]_vars
    /\ \A u \in Users, d \in Thresholds : Due(u, d) ~> Reminded(u, d)

\* the last threshold is issued to a user stamped by an earlier one
C12_Witness ==
    \E u \in Users :
        /\ Reminded(u, REMINDER_DAYS[Len(REMINDER_DAYS)])
        /\ users[u].last_reminder_sent # NULL
        /\ users[u].last_reminder_sent
               <= users[u].subscription_end - REMINDER_DAYS[1] * Day

\* C13: a successful removal at expiry does not leave the user banned, so a
\* user who resubscribes can join the channel again with the new invite link.
C13_RemovalDoesNotBan ==
    /\ [][(mon.pc = "remove" /\ mon' # mon /\ mon'.out.ok)
          => mon'.out.user \notin banned']_vars
    /\ [](\A u \in Users :
              (users[u].is_premium = 1 /\ users[u].invite_link # NULL)
              => u \notin banned)

\* C14: in a sweep pass every user found expired is processed exactly once
\* (one revocation followed by one removal attempt, no user listed twice) and
\* has is_premium = 0 when the pass is done with them, unless activated again
\* in between.
C14_SweepRevokesEachOnce ==
    /\ [](Cardinality(Listed(mon.expired)) = Len(mon.expired))
    /\ [][(mon.pc = "revoke" /\ mon' # mon)
          => (mon'.pc = "remove" /\ mon'.expired = mon.expired)]_vars
    /\ [][(mon.pc = "remove" /\ mon' # mon)
          => (/\ mon'.out.kind = "remove"
              /\ mon'.out.user = Head(mon.expired)
              /\ mon'.expired = Tail(mon.expired)
              /\ \/ users[Head(mon.expired)].is_premium = 0
                 \/ users[Head(mon.expired)].subscription_end >= now)]_vars

\* C15: when the removal or the notification of an expired user fails, no
\* users row changes (the revocation is kept) and the pass goes on with the
\* remaining expired users.
C15_RemovalFailureKeepsRevocation ==
    [][(mon.pc = "remove" /\ mon' # mon /\ ~mon'.out.ok)
       => (/\ users' = users
           /\ mon'.expired = Tail(mon.expired)
           /\ mon'.pc = IF Tail(mon.expired) # <<>> THEN "revoke"
                        ELSE "remind_list")]_vars

C15_Witness ==
    /\ mon.pc = "revoke"
    /\ mon.out.kind = "remove"
    /\ ~mon.out.ok
    /\ users[mon.out.user].is_premium = 0
    /\ Len(mon.expired) = 1

\* C16: after a successful verification the handler ends with a success
\* reply whether or not the invite link could be created; when it could not,
\* the step changes no users row, and in both cases the payment stays
\* completed and subscription_history is untouched.
C16_LinkFailureKeepsActivation ==
    [][(fe.pc = "invite" /\ fe' # fe)
       => (/\ fe'.pc = "respond"
           /\ fe'.reply \in {"success_link", "success_no_link"}
           /\ fe'.reply = "success_no_link" => users' = users
           /\ payments' = payments
           /\ Completed(fe.ref)
           /\ history' = history)]_vars

C16_Witness ==
    /\ fe.op = "verify"
    /\ fe.reply = "success_no_link"
    /\ users[fe.user].is_premium = 1
    /\ users[fe.user].subscription_end = fe.end
    /\ users[fe.user].invite_link = NULL
    /\ Completed(fe.ref)

\* a thread is inside a store operation from its first statement to the
\* commit or the rollback that ends the transaction
InStore(t) == conn[t].pc \in {"body", "rollback"}

\* C17: at most one thread is inside a store operation at any moment, and a
\* thread inside one holds the process-wide lock.
C17_OneThreadInStore ==
    /\ Cardinality({t \in Threads : InStore(t)}) <= 1
    /\ \A t \in Threads : InStore(t) => lock = t

\* C18: while the monitor's running flag is true, sweep passes keep
\* recurring whatever fails in a pass, and every user listed as expired in a
\* pass is processed in that pass whatever failed for the users before them.
C18_SweepNeverDies ==
    /\ []<>(~proc.running \/ mon.pc = "sleep")
    /\ []<>(~proc.running \/ mon.pc # "sleep")
    /\ \A u \in Users :
           (mon.pc \in {"revoke", "remove"} /\ u \in Listed(mon.expired))
           ~> (mon.out.kind = "remove" /\ mon.out.user = u)

\* the pass is done with user 2 although the revocation of user 1 failed
C18_Witness ==
    /\ mon.out.kind = "remove"
    /\ mon.out.user = 2
    /\ users[1].is_premium = 1
    /\ users[1].subscription_end # NULL
    /\ users[1].subscription_end < now
    /\ users[2].is_premium = 0

\* C19: a POST to /webhook/flutterwave is answered 200 and dispatched only
\* when its verif-hash header equals the configured secret; with any other
\* value it is answered 401 and nothing is dispatched; an internal error
\* while handling the request is answered 500.
C19_WebhookSignature ==
    http.path = "/webhook/flutterwave"
    => (/\ (http.status = 200 \/ http.dispatched)
              => http.signature = http.secret
        /\ http.status = 200 => http.dispatched
        /\ http.signature # http.secret
              => (/\ ~http.dispatched
                  /\ http.status = IF http.error THEN 500 ELSE 401)
        /\ http.error <=> http.status = 500)

C19_Witness ==
    /\ http.path = "/webhook/flutterwave"
    /\ http.signature = "wrong"
    /\ http.status = 401
    /\ http.threads = 1
    /\ http.posts = 2

\* C20: after SIGINT or SIGTERM is received, eventually the monitor's
\* stop() has been called and main has returned with exit status 0.
C20_SignalShutsDown ==
    proc.shutdown_flag
    ~> (proc.pc = "exited" /\ ~proc.running /\ proc.exit = 0)

\* C21: run_polling is started at most 5 times; every Conflict and every
\* network failure adds one to the count of attempts; once 5 of them have
\* failed no further attempt is made, the loop is left and the monitor is
\* stopped.
C21_AtMostFiveAttempts ==
    /\ [](proc.attempts <= 5)
    /\ [][(/\ proc.pc = "polling"
           /\ proc'.pc # "polling"
           /\ proc'.raised \in {"conflict", "network"})
          => proc'.retry_count = proc.retry_count + 1]_vars
    /\ [][proc'.attempts # proc.attempts
          => (/\ proc'.attempts = proc.attempts + 1
              /\ proc.retry_count < 5
              /\ proc'.attempts = proc'.retry_count + 1)]_vars
    /\ [](proc.retry_count >= 5
             => proc.pc \in {"stopping", "stopped", "exited"})
    /\ (proc.retry_count >= 5) ~> ~proc.running

C21_Witness ==
    /\ proc.retry_count = 5
    /\ proc.attempts = 5
    /\ proc.raised = "conflict"
    /\ ~proc.running

\* C22: a store operation whose write failed does not let its caller go on
\* as if the write had happened: the sweep does not go on to the removal of a
\* user whose revocation was not written, premium_command does not go on
\* without the users row that add_user was to write, and no handler shows an
\* invite link that save_invite_link did not store in the user's row.
C22_FailedWriteAbortsCaller ==
    /\ [][(/\ mon.pc = "revoke"
           /\ mon' # mon
           /\ users'[Head(mon.expired)].is_premium = 1)
          => mon'.pc # "remove"]_vars
    /\ [][(fe.pc = "idle" /\ fe'.pc = "premium_get")
          => users'[fe'.user].exists]_vars
    /\ [][(/\ fe.pc \in {"invite", "premium_save"}
           /\ fe'.reply \in {"success_link", "premium_link"}
           /\ users[fe.user].exists)
          => users'[fe.user].invite_link # NULL]_vars

\* C23: with the bot credential missing from the configuration the store is
\* never opened, the monitor thread, the HTTP listener and polling are never
\* started, and the process ends with exit status 1.
C23_MissingTokenAborts ==
    /\ [](proc.token = ""
             => (/\ proc.pc \in {"load_config", "exited"}
                 /\ ~proc.store
                 /\ ~proc.running
                 /\ ~proc.listener
                 /\ proc.attempts = 0
                 /\ proc.pc = "exited" => proc.exit = 1))
    /\ (proc.token = "") ~> (proc.pc = "exited" /\ proc.exit = 1)

C23_Witness ==
    /\ proc.token = ""
    /\ proc.pc = "exited"
    /\ proc.exit = 1
    /\ ~proc.store

\* C24: in a sweep pass the removal from the channel and the expiry notice
\* of a user are attempted only while the stored row of that user says
\* is_premium = 0.
C24_RemovalAfterRevocation ==
    [][(/\ mon.pc = "remove"
        /\ mon' # mon
        /\ mon'.out.kind = "remove")
       => users[mon'.out.user].is_premium = 0]_vars

\* C25: between the activation's read of the user's row and its write of the
\* new window no other write changes that row, and two activations of one
\* user by two different references extend subscription_end by one plan
\* duration each: the second window ends a full duration after the first.
C25_ActivationIsExclusive ==
    /\ [][(fe.pc = "update_sub" /\ fe'.pc = "update_sub")
          => users'[fe.user] = users[fe.user]]_vars
    /\ [](/\ Len(history) = 2
          /\ history[1].user_id = history[2].user_id
          /\ \A r \in Refs : activated[r] = 1
          => (/\ history[1].end_date
                     = history[1].start_date + SUBSCRIPTION_DAYS * Day
              /\ history[2].end_date
                     >= history[1].end_date + SUBSCRIPTION_DAYS * Day))

\* C26: no step moves a user's subscription_end to an earlier time.
C26_EndNeverDecreases ==
    [][\A u \in Users :
          users[u].subscription_end # NULL
          => (/\ users'[u].subscription_end # NULL
              /\ users'[u].subscription_end >= users[u].subscription_end)]_vars

\* C27: when the gateway does not confirm the payment, the handler replies
\* "not confirmed" and writes nothing: the users, payments and
\* subscription_history tables are unchanged and the payment record is still
\* a pending record of that user, so the reference can be verified again.
C27_DeclinedChangesNothing ==
    /\ [][(/\ fe.pc = "gateway"
           /\ fe' # fe
           /\ fe'.answer = "declined")
          => (/\ fe'.pc = "respond"
              /\ fe'.reply = "not_confirmed"
              /\ UNCHANGED <<users, payments, history, activated>>)]_vars
    /\ [](fe.answer = "declined"
             => (/\ payments[fe.ref].exists
                 /\ payments[fe.ref].user_id = fe.user
                 /\ payments[fe.ref].status = "pending"
                 /\ payments[fe.ref].writes = 0))

C27_Witness ==
    /\ fe.answer = "declined"
    /\ fe.reply = "not_confirmed"
    /\ payments[fe.ref].status = "pending"
    /\ users[fe.user].is_premium = 0
    /\ history = <<>>

\* C28: when the checkout link cannot be created, the handler gets the
\* client's error value and shows it (the reply of the gateway error, not
\* the one of an exception), no payment record is created and no users or
\* subscription_history row changes.
C28_LinkFailureCreatesNothing ==
    [][(/\ fe.pc = "idle"
        /\ fe'.op = "pay"
        /\ fe'.reply \notin {"checkout", "throttled", "error"})
       => (/\ fe'.reply = "gateway_error"
           /\ fe'.pc = "respond"
           /\ fe'.ref = 0
           /\ UNCHANGED <<users, payments, history, activated>>)]_vars

C28_Witness ==
    /\ fe.op = "pay"
    /\ fe.reply = "gateway_error"
    /\ \E r \in Refs : payments[r].exists
    /\ \E r \in Refs : ~payments[r].exists

\* C29: a pass in which the store failed while a reminder was stamped (the
\* stamp of the pass's last reminder was not written) ends with the short
\* wait of 300 seconds, not with the 1800 seconds of a pass without error.
C29_ShortWaitAfterError ==
    [][(/\ mon.pc = "remind"
        /\ mon'.pc = "pass_end"
        /\ users'[mon'.out.user].last_reminder_sent # now)
       => mon'.wait = 300]_vars

\* C30: a verification request for a reference that has no payment record,
\* or whose record belongs to another user, is answered "not found" without a
\* gateway call and changes no users, payments or subscription_history row;
\* a verification goes on to the gateway and to the activation only with a
\* record of the requesting user.
C30_ForeignReferenceRejected ==
    /\ [][(/\ fe.pc = "idle"
           /\ fe'.op = "verify"
           /\ \/ ~payments[fe'.ref].exists
              \/ payments[fe'.ref].user_id # fe'.user)
          => (/\ fe'.pc = "respond"
              /\ fe'.reply = "not_found"
              /\ ~fe'.gw
              /\ UNCHANGED <<users, payments, history, activated>>)]_vars
    /\ [](fe.pc \in {"gateway", "update_sub", "update_pay", "invite"}
             => (/\ payments[fe.ref].exists
                 /\ payments[fe.ref].user_id = fe.user))

C30_Witness ==
    /\ fe.op = "verify"
    /\ fe.reply = "not_found"
    /\ payments[fe.ref].exists
    /\ payments[fe.ref].user_id # fe.user
    /\ payments[fe.ref].status = "pending"

\* C31: the premium command asks for an invite link only for a user whose
\* row says is_premium = 1 with a subscription_end later than the current
\* time; a user whose window has elapsed and who is not yet swept
\* (is_premium still 1) is answered as not entitled and gets no link.
C31_LinkOnlyForActiveWindow ==
    [][(fe.pc = "premium_get" /\ fe' # fe)
       => (/\ (\/ fe'.pc = "premium_save"
               \/ fe'.reply \in {"premium_no_link", "premium_link"})
              => ActiveAt(users[fe.user], now)
           /\ (/\ users[fe.user].is_premium = 1
               /\ users[fe.user].subscription_end # NULL
               /\ users[fe.user].subscription_end <= now)
              => (/\ fe'.pc = "respond"
                  /\ fe'.reply \in {"expired", "premium_required"}
                  /\ users' = users))]_vars

C31_Witness ==
    /\ fe.op = "premium"
    /\ fe.reply = "expired"
    /\ users[fe.user].is_premium = 1
    /\ users[fe.user].subscription_end # NULL
    /\ users[fe.user].subscription_end < now

\* C32: subscription_history is append-only: a step either leaves it alone
\* or appends one row; every successful activation appends exactly the row
\* of its start, its end and its renewal flag; and that flag is 1 exactly
\* when the user had an active window when the handler read the row.
C32_HistoryAppendOnly ==
    /\ [][\/ history' = history
          \/ /\ Len(history') = Len(history) + 1
             /\ SubSeq(history', 1, Len(history)) = history]_vars
    /\ [][(fe.pc = "update_sub" /\ fe'.pc = "update_pay")
          => history' = Append(history,
                 history_row(fe.user, fe.start, fe.end, fe.renewal))]_vars
    /\ [][(fe.pc = "gateway" /\ fe'.pc = "update_sub")
          => (fe'.renewal <=> ActiveAt(users[fe.user], now))]_vars

\* C33: no step deletes a users row, and the upsert that every command
\* begins with leaves the subscription_start, subscription_end, is_premium,
\* last_reminder_sent and invite_link of every existing row unchanged and
\* creates the row of a new user.
C33_UpsertKeepsSubscription ==
    /\ [][\A u \in Users : users[u].exists => users'[u].exists]_vars
    /\ [][(/\ fe.pc = "idle"
           /\ fe'.pc \in {"idle", "premium_get"}
           /\ mon' = mon)
          => \A u \in Users :
                 /\ users[u].exists => users'[u] = users[u]
                 /\ users'[u] \in {users[u], NewUser}]_vars

C33_Witness ==
    /\ fe.pc = "premium_get"
    /\ users[fe.user].is_premium = 1
    /\ users[fe.user].subscription_end # NULL
    /\ users[fe.user].last_reminder_sent # NULL
    /\ users[fe.user].invite_link # NULL

\* C34: whenever a verification marks its payment completed, the row of the
\* owning user exists and has is_premium = 1 with the subscription_end that
\* this verification computed.
C34_CompletedMeansGranted ==
    [][(/\ fe.pc = "update_pay"
        /\ payments[fe.ref].status # "completed"
        /\ payments'[fe.ref].status = "completed")
       => (/\ users'[fe.user].exists
           /\ users'[fe.user].is_premium = 1
           /\ users'[fe.user].subscription_end = fe.end)]_vars

\* C35: in every reachable state a user with is_premium = 0 has no stored
\* invite link.
C35_RevokedHasNoLink ==
    \A u \in Users :
        (users[u].exists /\ users[u].is_premium = 0)
        => users[u].invite_link = NULL

\* C36: last_reminder_sent is stamped only after the reminder message went
\* out: a step of the pass whose reminder could not be sent writes no stamp.
C36_StampOnlyAfterSend ==
    [][(/\ mon.pc = "remind"
        /\ mon' # mon
        /\ mon'.out.kind = "reminder"
        /\ ~mon'.out.ok)
       => users'[mon'.out.user].last_reminder_sent
              = users[mon'.out.user].last_reminder_sent]_vars

\* C37: a POST to the webhook path that carries no verif-hash header is
\* never accepted, whatever secret is configured, the unset one included:
\* it is not dispatched and, unless an internal error makes it a 500, it is
\* answered 401.
C37_AbsentSignatureRejected ==
    (http.path = "/webhook/flutterwave" /\ http.signature = "")
    => (/\ ~http.dispatched
        /\ http.status = IF http.error THEN 500 ELSE 401)

\* C38: a store operation holds the lock only while its body runs and gives
\* it up when the body ends, by a commit or by an exception: a thread that
\* is rolling back, closing or outside a store operation does not hold the
\* lock, a held lock is eventually free again, and every thread waiting for
\* the lock eventually gets it.
C38_LockAlwaysReleased ==
    /\ [](\A t \in Threads : lock = t => conn[t].pc = "body")
    /\ [][\A t \in Threads :
             (conn[t].pc = "body" /\ conn'[t].pc # "body")
             => lock' = "free"]_vars
    /\ (lock # "free") ~> (lock = "free")
    /\ \A t \in Threads : (conn[t].pc = "waiting") ~> (conn[t].pc = "body")

\* one thread's operation has raised and is rolling back while another
\* thread's operation runs
C38_Witness ==
    \E t1, t2 \in Threads :
        /\ conn[t1].pc = "rollback"
        /\ conn[t2].pc = "body"
        /\ lock = t2

\* a Conflict that is followed by a wait
ConflictWait ==
    /\ proc.pc = "polling"
    /\ proc'.pc = "backoff"
    /\ proc'.raised = "conflict"

\* C39 as stated: the wait after a Conflict never exceeds 60 seconds and,
\* from one Conflict to the next consecutive one, grows by a constant factor
\* (the factor between the waits after the first and the second failure)
\* until it reaches 60.
C39_BackoffAsStated ==
    /\ [](proc.wait_time <= 60)
    /\ [][(ConflictWait /\ proc.raised = "conflict")
          => LET factor == conflict_wait(2) \div conflict_wait(1)
             IN proc'.wait_time = Min(proc.wait_time * factor, 60)]_vars

\* C39, amended: the wait after a Conflict is 10 seconds times the number of
\* failed attempts so far (Conflicts and network failures alike), at most
\* 60: from one Conflict to the next consecutive one it grows by 10 seconds.
C39_BackoffOfCode ==
    /\ [](proc.wait_time <= 60)
    /\ [][ConflictWait
          => (/\ proc'.wait_time = Min(10 * proc'.retry_count, 60)
              /\ proc.raised = "conflict"
                     => proc'.wait_time = proc.wait_time + 10)]_vars

\* the wait after the third and the fourth of four Conflicts in a row
C39_Witness ==
    /\ proc.pc = "backoff"
    /\ proc.raised = "conflict"
    /\ proc.retry_count = 4
    /\ proc.wait_time = 40

====
